---- MODULE Spec2Model ----
(***************************************************************************)
(* NBA_Chat_Backend: the match-analysis pipeline (server/main.py,          *)
(* agents/match_analysis/orchestrator.py), the worker/critic refinement    *)
(* loop run by execute_agent / write_editorial, and the tool-calling       *)
(* conversation loop OpenAIClient.get_completion.                          *)
(*                                                                         *)
(* The specifications of the module:                                       *)
(*   SpecPipeline  one POST /reports/match-analysis request                *)
(*   SpecLoop      one LoopAgent run (research loop or editorial loop)     *)
(*   SpecChat      get_completion conversations on one OpenAIClient        *)
(*   SpecConvert   one call of mcp_tools_to_openai_tools                   *)
(*   SpecTags      one call of the tool get_tools_by_category              *)
(*   SpecRetry     calls of the NBA fetch helpers under @retry             *)
(*   SpecConnections  connect, disconnect, send_to_chat on one manager     *)
(*   SpecPost      POST /chat requests and their background tasks          *)
(* SpecSelect, SpecFail, SpecConc, SpecRoute, SpecPayload and SpecTurn are *)
(* SpecChat started with other tool calls, conversations or catalogs.      *)
(***************************************************************************)
EXTENDS Integers, Sequences, FiniteSets, TLC

VARIABLES
    \* ---- pipeline (main.generate_match_analysis) ----
    hpc,            \* position of the request handler
    pass,           \* which generate_research call is active: 1 = main.py:266, 2 = orchestrator.py:175
    agentPc,        \* state of each ResearchLoop.run task handed to asyncio.gather
    funcPc,         \* state of each function_config call of the current generate_research
    execCount,      \* how many times each task's own logic has been started in this request
    produced,       \* tasks that have produced a result during this request
    reports,        \* number of reports stored by create_match_analysis_report
    \* ---- refinement loop (execute_agent / write_editorial) ----
    lkind,          \* "research" (ResearchLoop) or "editorial" (write_editorial)
    state_injection,\* does the agent framework substitute {key} in a provider's text
    lpc,            \* position inside the runner
    times_looped,   \* LoopAgent iteration counter
    critique,       \* session.state["critique"]
    results,        \* the (author, text) list collected from the event stream
    workerLog,      \* one record per worker invocation
    criticLog,      \* one record per critic invocation
    last_message,   \* the value returned to the caller
    \* ---- conversation loop (OpenAIClient.get_completion) ----
    cpc,            \* position of each get_completion invocation
    full_messages,  \* transcript of each invocation
    current_tools,  \* tool list sent with the next model request
    tool_calls,     \* msg.tool_calls of the response being processed
    callIdx,        \* index of the tool call being processed
    mcp_lock,       \* holder of the asyncio.Lock shared by every session
    requests,       \* number of model requests issued by each invocation
    final_text,     \* value returned by each invocation
    convSet,        \* the get_completion invocations of the run
    callMenu,       \* the tool invocations the language model may request
    reqCap,         \* cap on the tool-calling responses of one invocation
    callCap,        \* cap on the tool calls of one response
    messages,       \* the caller's message list handed to each invocation
    tool_result,    \* what session.call_tool returned for the call last made
    exception,      \* where the exception that left an invocation was raised
    name_clash,     \* does the persistent catalog repeat the name of an nba tool
    request_tools,  \* the tools argument of each model request of an invocation
    \* ---- tool descriptor conversion (mcp_tools_to_openai_tools) ----
    convPc,         \* "ready" before the call, "converted" after it
    mcp_tools,      \* the MCP tool descriptors handed to the conversion
    openai_tools,   \* the list the conversion returned
    \* ---- category selection tool (mcp_server.get_tools_by_category) ----
    tagPc,          \* "ready" before the call, "returned" after it
    tag_request,    \* the categories argument of the call
    selection_result, \* the call result
    \* ---- NBA fetch helpers under @retry (data_preprocessing.py) ----
    retryPc,        \* position of the helper call in progress
    helper,         \* the helper being called
    attempt_number, \* retry_state.attempt_number of the call
    outcomes,       \* outcome of each attempt of the call, in order
    waits,          \* seconds slept after each failed attempt of the call
    fetched,        \* the helper calls that returned to the caller so far
    \* ---- ConnectionManager (server/connection_manager.py) ----
    connections,    \* self.connections: chat id -> set of websockets
    lock,           \* holder of self.lock
    last_call,      \* the call that took the lock last, with its arguments
    sending_to,     \* chat_id of the broadcast in progress (or of the last one)
    snapshot,       \* self.connections when that broadcast took the lock
    pending,        \* websockets the for loop of the broadcast has not reached
    broken,         \* the set broken of the broadcast
    attempts,       \* send_json calls made by the broadcast, per websocket
    \* ---- POST /chat and its background task (server/main.py) ----
    ppc,            \* position of each POST /chat request and of its background task
    chat_messages,  \* the messages stored for the chat, in insertion order
    broadcasts,     \* the message_created events handed to send_to_chat, in order
    user_msg,       \* user_msg of each request: the row it read back (0: none yet)
    response        \* what each request returned to its client

pipeVars == <<hpc, pass, agentPc, funcPc, execCount, produced, reports>>
loopVars == <<lkind, state_injection, lpc, times_looped, critique, results,
              workerLog, criticLog, last_message>>
chatVars == <<cpc, full_messages, current_tools, tool_calls, callIdx, mcp_lock,
              requests, final_text, convSet, callMenu, reqCap, callCap,
              messages, tool_result, exception, name_clash, request_tools>>
convVars == <<convPc, mcp_tools, openai_tools>>
tagVars == <<tagPc, tag_request, selection_result>>
retryVars == <<retryPc, helper, attempt_number, outcomes, waits, fetched>>
connVars == <<connections, lock, last_call, sending_to, snapshot, pending, broken, attempts>>
postVars == <<ppc, chat_messages, broadcasts, user_msg, response>>
extVars == <<convVars, tagVars, retryVars, connVars, postVars>>
vars == <<pipeVars, loopVars, chatVars, extVars>>

None == "None"

(***************************************************************************)
(* Task graph declared in research_configs.py                              *)
(***************************************************************************)
\* function_config objects, in declaration order
FunctionOrder == <<"team_performance", "player_performance", "matchup_history", "team_schedule">>
\* research agent_config objects, in declaration order
AgentOrder == <<"inactive_players", "odds", "rivalry", "schedule", "match_prediction", "fan_narrative">>
Writer == "writer"

SeqRange(s) == {s[i] : i \in DOMAIN s}
FunctionNames == SeqRange(FunctionOrder)
AgentNames == SeqRange(AgentOrder)
Tasks == FunctionNames \cup AgentNames \cup {Writer}

IndexOf(s, x) == CHOOSE i \in DOMAIN s : s[i] = x

\* the depends_on list of every config
depends_on(t) ==
    CASE t = "rivalry"          -> {"matchup_history"}
      [] t = "schedule"         -> {"team_schedule"}
      [] t = "match_prediction" -> {"team_performance", "player_performance",
                                    "inactive_players", "odds", "schedule"}
      [] t = "fan_narrative"    -> {"team_performance", "player_performance",
                                    "inactive_players", "schedule"}
      [] t = Writer             -> {"match_prediction", "fan_narrative", "rivalry"}
      [] OTHER                  -> {}

(***************************************************************************)
(* generate_research: asyncio.gather over the agent runs, then the         *)
(* function calls one after another                                        *)
(***************************************************************************)
\* the event loop gives the tasks created by gather their first step in list order
MayStart(a) ==
    /\ agentPc[a] = "idle"
    /\ \A b \in AgentNames :
          IndexOf(AgentOrder, b) < IndexOf(AgentOrder, a) => agentPc[b] # "idle"

\* a started run is resumed (its model response is delivered) only after every
\* task created by the same gather has had its first step
MayResume(a) ==
    /\ agentPc[a] = "running"
    /\ \A b \in AgentNames : agentPc[b] # "idle"

PipelineInit ==
    /\ hpc = "idle"
    /\ pass = 1
    /\ agentPc = [a \in AgentNames |-> "idle"]
    /\ funcPc = [f \in FunctionNames |-> "idle"]
    /\ execCount = [t \in Tasks |-> 0]
    /\ produced = {}
    /\ reports = 0

\* POST /reports/match-analysis: step 1 calls generate_research, which builds
\* the ResearchLoop objects and awaits the gather
PostMatchAnalysis ==
    /\ hpc = "idle"
    /\ hpc' = "gather"
    /\ UNCHANGED <<pass, agentPc, funcPc, execCount, produced, reports>>

\* first step of ResearchLoop.run for agent a: setup actions, user message,
\* execute_agent up to its first model request
AgentStart(a) ==
    /\ hpc = "gather"
    /\ MayStart(a)
    /\ agentPc' = [agentPc EXCEPT ![a] = "running"]
    /\ execCount' = [execCount EXCEPT ![a] = @ + 1]
    /\ UNCHANGED <<hpc, pass, funcPc, produced, reports>>

\* execute_agent returns the last message of agent a's run
AgentFinish(a) ==
    /\ MayResume(a)
    /\ agentPc' = [agentPc EXCEPT ![a] = "done"]
    /\ produced' = produced \cup {a}
    /\ UNCHANGED <<hpc, pass, funcPc, execCount, reports>>

\* agent a's run raises; gather hands the first exception to generate_research,
\* which propagates it to the handler, while the other tasks keep running
AgentFail(a) ==
    /\ MayResume(a)
    /\ agentPc' = [agentPc EXCEPT ![a] = "failed"]
    /\ hpc' = IF hpc = "gather" THEN "error" ELSE hpc
    /\ UNCHANGED <<pass, funcPc, execCount, produced, reports>>

\* gather returns once every run has returned
GatherReturn ==
    /\ hpc = "gather"
    /\ \A a \in AgentNames : agentPc[a] = "done"
    /\ hpc' = "functions"
    /\ UNCHANGED <<pass, agentPc, funcPc, execCount, produced, reports>>

NextFunction(f) ==
    /\ funcPc[f] = "idle"
    /\ \A g \in FunctionNames :
          IndexOf(FunctionOrder, g) < IndexOf(FunctionOrder, f) => funcPc[g] = "done"

\* call_function(cfg.function, ...) inside the function_results comprehension
FunctionCall(f, ok) ==
    /\ hpc = "functions"
    /\ NextFunction(f)
    /\ execCount' = [execCount EXCEPT ![f] = @ + 1]
    /\ IF ok
         THEN /\ funcPc' = [funcPc EXCEPT ![f] = "done"]
              /\ produced' = produced \cup {f}
              /\ hpc' = hpc
         ELSE /\ funcPc' = [funcPc EXCEPT ![f] = "failed"]
              /\ produced' = produced
              /\ hpc' = "error"
    /\ UNCHANGED <<pass, agentPc, reports>>

\* generate_research returns to main; step 2 calls write_editorial, whose first
\* statement calls generate_research again with fresh ResearchLoop objects
ResearchReturnsToMain ==
    /\ hpc = "functions"
    /\ pass = 1
    /\ \A f \in FunctionNames : funcPc[f] = "done"
    /\ pass' = 2
    /\ hpc' = "gather"
    /\ agentPc' = [a \in AgentNames |-> "idle"]
    /\ funcPc' = [f \in FunctionNames |-> "idle"]
    /\ UNCHANGED <<execCount, produced, reports>>

\* generate_research returns to write_editorial, which builds the agents and
\* starts the editorial loop (writer, critic)
ResearchReturnsToEditorial ==
    /\ hpc = "functions"
    /\ pass = 2
    /\ \A f \in FunctionNames : funcPc[f] = "done"
    /\ hpc' = "writer"
    /\ execCount' = [execCount EXCEPT ![Writer] = @ + 1]
    /\ UNCHANGED <<pass, agentPc, funcPc, produced, reports>>

\* the editorial loop ends and write_editorial returns its last message
WriterFinish ==
    /\ hpc = "writer"
    /\ hpc' = "store"
    /\ produced' = produced \cup {Writer}
    /\ UNCHANGED <<pass, agentPc, funcPc, execCount, reports>>

\* the editorial loop raises
WriterFail ==
    /\ hpc = "writer"
    /\ hpc' = "error"
    /\ UNCHANGED <<pass, agentPc, funcPc, execCount, produced, reports>>

\* variant: the report is stored whether or not the steps before it raised
StoreReportAfterError ==
    /\ hpc \in {"store", "error"}
    /\ reports' = reports + 1
    /\ hpc' = "completed"
    /\ UNCHANGED <<pass, agentPc, funcPc, execCount, produced>>

\* step 3: create_match_analysis_report, then the response
StoreReport ==
    /\ hpc = "store"
    /\ reports' = reports + 1
    /\ hpc' = "completed"
    /\ UNCHANGED <<pass, agentPc, funcPc, execCount, produced>>

NextPipeline ==
    \/ PostMatchAnalysis /\ UNCHANGED <<loopVars, chatVars, extVars>>
    \/ (\E a \in AgentNames : AgentStart(a)) /\ UNCHANGED <<loopVars, chatVars, extVars>>
    \/ (\E a \in AgentNames : AgentFinish(a)) /\ UNCHANGED <<loopVars, chatVars, extVars>>
    \/ (\E a \in AgentNames : AgentFail(a)) /\ UNCHANGED <<loopVars, chatVars, extVars>>
    \/ GatherReturn /\ UNCHANGED <<loopVars, chatVars, extVars>>
    \/ (\E f \in FunctionNames, ok \in BOOLEAN : FunctionCall(f, ok)) /\ UNCHANGED <<loopVars, chatVars, extVars>>
    \/ ResearchReturnsToMain /\ UNCHANGED <<loopVars, chatVars, extVars>>
    \/ ResearchReturnsToEditorial /\ UNCHANGED <<loopVars, chatVars, extVars>>
    \/ WriterFinish /\ UNCHANGED <<loopVars, chatVars, extVars>>
    \/ WriterFail /\ UNCHANGED <<loopVars, chatVars, extVars>>
    \/ StoreReport /\ UNCHANGED <<loopVars, chatVars, extVars>>


(***************************************************************************)
(* Claims about the pipeline (checked under SpecPipeline)                  *)
(***************************************************************************)
Failed(t) == IF t \in FunctionNames THEN funcPc[t] = "failed"
             ELSE IF t \in AgentNames THEN agentPc[t] = "failed" ELSE FALSE
Begun(t) == IF t \in FunctionNames THEN funcPc[t] # "idle" ELSE agentPc[t] # "idle"
Finished(t) == IF t \in FunctionNames THEN funcPc[t] \in {"done", "failed"}
               ELSE agentPc[t] \in {"done", "failed"}
Quiescent == hpc \in {"completed", "error"} /\ \A a \in AgentNames : agentPc[a] # "running"

RECURSIVE Needs(_, _, _)
\* t depends on d directly or through at most n other tasks
Needs(t, d, n) ==
    \/ d \in depends_on(t)
    \/ n > 0 /\ \E u \in depends_on(t) : Needs(u, d, n - 1)
DependsOn(t, d) == Needs(t, d, Cardinality(Tasks))

\* C1: within one pipeline run (generate_research followed by write_editorial)
\* every task's underlying logic is executed exactly once: when the request
\* has completed, each research agent loop, each leaf function and the writer
\* has been started exactly one time.
C1_EachTaskExecutedOnce ==
    hpc = "completed" => \A t \in Tasks : execCount[t] = 1

\* C2: a task's own logic never begins until every task of its depends_on list
\* has resolved successfully: every task that has been started has all its
\* dependencies among the tasks that have produced a result.
C2_DependenciesResolvedFirst ==
    \A t \in Tasks : execCount[t] > 0 => depends_on(t) \subseteq produced

\* C3: when one leaf fails, the tasks that depend on it never execute their own
\* logic, and once the run has come to rest every task that does not depend on
\* the failing leaf has resolved to success.
C3_FailureIsolation ==
    \A f \in Tasks :
        (depends_on(f) = {} /\ Failed(f) /\ \A g \in Tasks \ {f} : ~Failed(g)) =>
            /\ \A t \in Tasks : DependsOn(t, f) => execCount[t] = 0
            /\ Quiescent =>
                  \A t \in Tasks \ {f} : ~DependsOn(t, f) => t \in produced

\* C4: all mutually independent tasks of a generate_research call are started
\* before any of them is awaited to its end: once a research agent loop or a
\* leaf function has finished, every agent loop and every leaf function of the
\* call has begun.
C4_AllTasksBegunBeforeAnyFinished ==
    (\E t \in AgentNames \cup FunctionNames : Finished(t)) =>
        \A t \in AgentNames \cup FunctionNames : Begun(t)

(***************************************************************************)
(* Refinement loop: LoopAgent(sub_agents = [worker, critic],               *)
(* max_iterations = 3), for a ResearchLoop followed by the organizer       *)
(***************************************************************************)
max_iterations == 3

NoText == ""
DraftTexts == {"draft_a", "draft_b"}
FeedbackTexts == {"feedback_a", "feedback_b"}
OrganizerTexts == {"organized"}

\* instruction texts are sequences of fragments; "{critique}" is the placeholder
Placeholder == "{critique}"
trigger_found_instructions == <<"Additional research required: ", Placeholder>>
system_prompt(kind) == <<IF kind = "research" THEN "action.system_prompt"
                         ELSE "writing_configs.writer.system_prompt">>

\* variant: the test on the trigger inverted
build_conditional_instructions_inverted(kind, target) ==
    IF target # "" THEN system_prompt(kind) ELSE trigger_found_instructions

\* create_instructions_provider(...)(ctx): target is ctx.state.get("critique", "")
build_conditional_instructions(kind, target) ==
    IF target # "" THEN trigger_found_instructions ELSE system_prompt(kind)

\* the framework's substitution of the session value for the placeholder
inject_session_state(instruction, value) ==
    [i \in DOMAIN instruction |->
        IF instruction[i] = Placeholder THEN value ELSE instruction[i]]

Contains(instruction, text) == \E i \in DOMAIN instruction : instruction[i] = text

\* exit_loop() returns a dict and receives no tool context: it sets no
\* escalate action on its event
exit_loop == [status |-> "approved", escalate |-> FALSE]

\* research_critic has tools = [FunctionTool(exit_loop)]; the critic built in
\* write_editorial has no tools
CriticTools(kind) == IF kind = "research" THEN {"exit_loop"} ELSE {}

\* a text part is appended to results only when it is non-empty
Collect(rs, author, text) ==
    IF text = NoText THEN rs ELSE Append(rs, [author |-> author, text |-> text])

\* where the runner goes when the LoopAgent is over
AfterLoop(kind) == IF kind = "research" THEN "organizer" ELSE "collect"

LoopInit ==
    /\ lkind \in {"research", "editorial"}
    /\ state_injection \in BOOLEAN
    /\ lpc = "idle"
    /\ times_looped = 0
    /\ critique = None
    /\ results = <<>>
    /\ workerLog = <<>>
    /\ criticLog = <<>>
    /\ last_message = None

\* InMemoryRunner and create_session(state = {"critique": ""})
CreateSession ==
    /\ lpc = "idle"
    /\ lpc' = "worker"
    /\ critique' = ""
    /\ UNCHANGED <<lkind, state_injection, times_looped, results, workerLog,
                   criticLog, last_message>>

\* one run of the worker sub-agent: its instruction is computed from the
\* session state, its text (if any) is collected
WorkerStep(text) ==
    /\ lpc = "worker"
    /\ LET provided == build_conditional_instructions(lkind, critique)
           effective == IF state_injection
                          THEN inject_session_state(provided, critique)
                          ELSE provided
       IN workerLog' = Append(workerLog, [seen |-> critique,
                                           provided |-> provided,
                                           instruction |-> effective,
                                           output |-> text])
    /\ results' = Collect(results, "worker", text)
    /\ lpc' = "critic"
    /\ UNCHANGED <<lkind, state_injection, times_looped, critique, criticLog, last_message>>

\* one run of the critic sub-agent: it may call exit_loop when it has the tool;
\* output_key = "critique" stores its final text; the LoopAgent stops on an
\* escalate action or when max_iterations is reached
CriticStep(accept, text, stored) ==
    /\ lpc = "critic"
    /\ accept => "exit_loop" \in CriticTools(lkind)
    /\ stored \in (IF text = NoText THEN {critique, ""} ELSE {text})
    /\ criticLog' = Append(criticLog, [accept |-> accept, text |-> text, stored |-> stored])
    /\ results' = Collect(results, "critic", text)
    /\ critique' = stored
    /\ LET should_exit == accept /\ exit_loop.escalate
       IN IF should_exit
            THEN /\ lpc' = AfterLoop(lkind)
                 /\ times_looped' = times_looped
            ELSE /\ times_looped' = times_looped + 1
                 /\ lpc' = IF times_looped + 1 < max_iterations
                             THEN "worker" ELSE AfterLoop(lkind)
    /\ UNCHANGED <<lkind, state_injection, workerLog, last_message>>

\* research_organizer, the second sub-agent of the SequentialAgent
OrganizerStep(text) ==
    /\ lpc = "organizer"
    /\ results' = Collect(results, "organizer", text)
    /\ lpc' = "collect"
    /\ UNCHANGED <<lkind, state_injection, times_looped, critique, workerLog,
                   criticLog, last_message>>

\* a model exchange of the running sub-agent raises
StepRaises ==
    /\ lpc \in {"worker", "critic", "organizer"}
    /\ lpc' = "raised"
    /\ UNCHANGED <<lkind, state_injection, times_looped, critique, results,
                   workerLog, criticLog, last_message>>

\* return results[-1][1]; an empty list raises IndexError
ReturnLastMessage ==
    /\ lpc = "collect"
    /\ IF results = <<>>
         THEN /\ lpc' = "raised"
              /\ last_message' = last_message
         ELSE /\ lpc' = "returned"
              /\ last_message' = results[Len(results)].text
    /\ UNCHANGED <<lkind, state_injection, times_looped, critique, results,
                   workerLog, criticLog>>

NextLoop ==
    \/ CreateSession /\ UNCHANGED <<pipeVars, chatVars, extVars>>
    \/ (\E text \in DraftTexts \cup {NoText} : WorkerStep(text)) /\ UNCHANGED <<pipeVars, chatVars, extVars>>
    \/ (\E accept \in BOOLEAN, text \in FeedbackTexts \cup {NoText}, stored \in FeedbackTexts \cup {NoText} :
            CriticStep(accept, text, stored)) /\ UNCHANGED <<pipeVars, chatVars, extVars>>
    \/ (\E text \in OrganizerTexts \cup {NoText} : OrganizerStep(text)) /\ UNCHANGED <<pipeVars, chatVars, extVars>>
    \/ StepRaises /\ UNCHANGED <<pipeVars, chatVars, extVars>>
    \/ ReturnLastMessage /\ UNCHANGED <<pipeVars, chatVars, extVars>>



(***************************************************************************)
(* Claims about the refinement loop (checked under SpecLoop)               *)
(***************************************************************************)
NeverAccepted == \A i \in DOMAIN criticLog : ~criticLog[i].accept
LastCandidate == workerLog[Len(workerLog)].output

\* C5: when the critic never emits the accept signal, the loop ends after
\* exactly max_iterations worker invocations and the value returned is the last
\* candidate output of the worker.
C5_BoundedRefinementReturnsCandidate ==
    (lpc = "returned" /\ NeverAccepted) =>
        /\ Len(workerLog) = max_iterations
        /\ last_message = LastCandidate

\* C6: when the critic calls exit_loop in its k-th run, the loop stops there:
\* exactly k worker invocations have occurred and no worker or critic step
\* follows the accepting critic step.
C6_EarlyAcceptStopsLoop ==
    \A k \in DOMAIN criticLog :
        criticLog[k].accept => Len(workerLog) = k /\ Len(criticLog) = k

\* C7: the value returned by a refinement loop is the worker's candidate output
\* of the final iteration, never the critic's text, however the loop ended.
C7_ReturnsWorkerCandidate ==
    lpc = "returned" =>
        /\ last_message = LastCandidate
        /\ \A i \in DOMAIN criticLog : last_message # criticLog[i].text

\* C8: when the critic rejects twice with feedback and then accepts, the worker
\* runs 3 times and the instruction of its 2nd and 3rd invocation contains the
\* literal text of the 1st and 2nd critique.
C8_CritiqueInterpolated ==
    (/\ lpc = "returned"
     /\ Len(criticLog) = 3
     /\ ~criticLog[1].accept /\ criticLog[1].text # NoText
     /\ ~criticLog[2].accept /\ criticLog[2].text # NoText
     /\ criticLog[3].accept) =>
        /\ Len(workerLog) = 3
        /\ Contains(workerLog[2].instruction, criticLog[1].text)
        /\ Contains(workerLog[3].instruction, criticLog[2].text)

\* C9: the worker's instruction is decided by the last critique alone: the
\* first invocation of a fresh session reads an empty critique, every later
\* invocation reads what the preceding critic run stored; an empty critique
\* selects the task's system prompt, a non-empty one the revise instruction.
C9_InstructionFromCritique ==
    \A i \in DOMAIN workerLog :
        /\ workerLog[i].seen = (IF i = 1 THEN "" ELSE criticLog[i - 1].stored)
        /\ workerLog[i].seen = "" =>
              /\ workerLog[i].provided = <<IF lkind = "research" THEN "action.system_prompt"
                                           ELSE "writing_configs.writer.system_prompt">>
              /\ workerLog[i].instruction = workerLog[i].provided
        /\ workerLog[i].seen # "" =>
              workerLog[i].provided = <<"Additional research required: ", "{critique}">>

\* a run in which one worker invocation read an empty critique and a later one
\* read a critic's feedback
C9_Witness ==
    /\ lpc = "returned"
    /\ \E i, j \in DOMAIN workerLog : workerLog[i].seen = "" /\ workerLog[j].seen \in FeedbackTexts

(***************************************************************************)
(* Tool-calling conversation loop: OpenAIClient (server/openai_client.py)  *)
(* and the category-selection tool (nba_mcp_server/mcp_server.py)          *)
(***************************************************************************)
MaxRequests == 2    \* model responses with tool calls per get_completion
MaxCalls == 2       \* tool calls in one model response

Convs == {"c1", "c2"}
Selection == "get_tools_by_category"

\* the tool catalogs handed to OpenAIClient.__init__: name and meta["category"]
nba_tools == <<
    [name |-> "get_tools_by_category",   category |-> <<"base">>],
    [name |-> "get_player_name_from_id", category |-> <<"player">>],
    [name |-> "get_team_name_from_id",   category |-> <<"team">>],
    [name |-> "get_all_players",         category |-> <<"player", "league">>] >>
persistent_tools ==
    IF name_clash
      THEN << [name |-> "perplexity_search", category |-> <<>>],
              [name |-> "get_team_name_from_id", category |-> <<>>] >>
      ELSE << [name |-> "perplexity_search", category |-> <<>>] >>

\* class ToolCategory and ALLOWED
ToolCategory == {"player", "team", "league", "game", "boxscore", "draft",
                 "franchise", "playoff", "season", "base"}
ALLOWED == ToolCategory \ {"base"}

\* c.lower().strip() on the tags the model may send
Normalize(tag) == CASE tag = " Player " -> "player"
                    [] tag = "TEAM"     -> "team"
                    [] tag = "Base "    -> "base"
                    [] OTHER            -> tag

\* sorted(): the tags in lexicographic order
TagOrder == <<" Player ", "Base ", "TEAM", "base", "bogus", "boxscore", "draft", "franchise",
              "game", "league", "player", "playoff", "season", "team">>
RECURSIVE SortedFrom(_, _)
SortedFrom(set, i) ==
    IF i > Len(TagOrder) THEN <<>>
    ELSE IF TagOrder[i] \in set THEN <<TagOrder[i]>> \o SortedFrom(set, i + 1)
    ELSE SortedFrom(set, i + 1)
sorted(set) == SortedFrom(set, 1)

\* JSON values: a list of strings, or a string given by the fragments joined
\* with newlines
JList(items) == [type |-> "list", items |-> items]
JStr(fragments) == [type |-> "str", items |-> fragments]
\* CallToolResult.structuredContent: absent, an empty object, or {"result": v}
NoDict == [kind |-> "none", result |-> JStr(<<>>)]
EmptyDict == [kind |-> "empty", result |-> JStr(<<>>)]
Dict(v) == [kind |-> "dict", result |-> v]
ToolError(texts) == [isError |-> TRUE, structuredContent |-> NoDict, content |-> texts]

\* variant: the always-visible tag is left out of the returned list
get_tools_by_category_without_base(categories) ==
    LET requested == {Normalize(categories[i]) : i \in DOMAIN categories}
        invalid == requested \ ALLOWED
    IN IF invalid # {}
         THEN ToolError(<<"Invalid categories">> \o sorted(invalid)
                          \o <<"Allowed">> \o sorted(ALLOWED))
         ELSE [isError |-> FALSE,
               structuredContent |-> Dict(JList(sorted(requested))),
               content |-> sorted(requested)]

\* the MCP tool get_tools_by_category(categories), as the call result the
\* client receives: a structured list, or an error text
get_tools_by_category(categories) ==
    LET requested == {Normalize(categories[i]) : i \in DOMAIN categories}
        invalid == requested \ ALLOWED
    IN IF invalid # {}
         THEN ToolError(<<"Invalid categories">> \o sorted(invalid)
                          \o <<"Allowed">> \o sorted(ALLOWED))
         ELSE [isError |-> FALSE,
               structuredContent |-> Dict(JList(sorted(requested \cup {"base"}))),
               content |-> sorted(requested \cup {"base"})]

\* variant: every tool name is mapped to the nba session
tool_to_session_all_nba ==
    [n \in {nba_tools[i].name : i \in DOMAIN nba_tools}
           \cup {persistent_tools[i].name : i \in DOMAIN persistent_tools} |-> "nba"]

\* self.tool_to_session: nba names first, persistent names overwrite
tool_to_session ==
    [n \in {nba_tools[i].name : i \in DOMAIN nba_tools}
           \cup {persistent_tools[i].name : i \in DOMAIN persistent_tools} |->
        IF \E i \in DOMAIN persistent_tools : persistent_tools[i].name = n
          THEN "perplexity" ELSE "nba"]

\* variant: the persistent catalog is left out of the tool lists
persistent_tools_openai_empty == <<>>

\* mcp_tools_to_openai_tools keeps the order; a tool is represented by its name
persistent_tools_openai == [i \in DOMAIN persistent_tools |-> persistent_tools[i].name]

\* self.nba_tools_by_category: categories outside ToolCategory are skipped
CategoryKeys ==
    {cat \in ToolCategory : \E i \in DOMAIN nba_tools :
        \E j \in DOMAIN nba_tools[i].category : nba_tools[i].category[j] = cat}
RECURSIVE ToolsTagged(_, _)
ToolsTagged(cat, i) ==
    IF i > Len(nba_tools) THEN <<>>
    ELSE IF \E j \in DOMAIN nba_tools[i].category : nba_tools[i].category[j] = cat
           THEN <<nba_tools[i].name>> \o ToolsTagged(cat, i + 1)
           ELSE ToolsTagged(cat, i + 1)
nba_tools_by_category == [cat \in CategoryKeys |-> ToolsTagged(cat, 1)]

\* variant: no de-duplication by tool name
DedupKeepAll(s, seen) == s

\* get_tool_subset: the tools of the categories in order, first occurrence kept
RECURSIVE Dedup(_, _)
Dedup(s, seen) ==
    IF s = <<>> THEN <<>>
    ELSE IF Head(s) \in seen THEN Dedup(Tail(s), seen)
    ELSE <<Head(s)>> \o Dedup(Tail(s), seen \cup {Head(s)})
RECURSIVE Flatten(_)
Flatten(categories) ==
    IF categories = <<>> THEN <<>>
    ELSE nba_tools_by_category[Head(categories)] \o Flatten(Tail(categories))
get_tool_subset(categories) == Dedup(Flatten(categories), {})

\* a category list get_tool_subset can index without a KeyError
Indexable(categories) ==
    \/ categories.type = "list"
          /\ \A i \in DOMAIN categories.items : categories.items[i] \in CategoryKeys
    \/ categories.type = "str" /\ categories.items = <<>>

SystemTurn == [role |-> "system", content |-> "system_prompt",
               tool_calls |-> <<>>, tool_call_id |-> None]
UserTurn == [role |-> "user", content |-> "question",
             tool_calls |-> <<>>, tool_call_id |-> None]
\* variant: every tool turn carries the identifier of the response's first call
ToolTurnFirstId(id, content) == [role |-> "tool", content |-> content,
                                 tool_calls |-> <<>>, tool_call_id |-> <<id[1], 1>>]
ToolTurn(id, content) == [role |-> "tool", content |-> content,
                          tool_calls |-> <<>>, tool_call_id |-> id]

\* variant: a response with a single tool call taken as final
ToolCallsPresentOffByOne(msg) == Len(msg.tool_calls) > 1

\* getattr(msg, "tool_calls", None) is truthy
ToolCallsPresent(msg) == Len(msg.tool_calls) > 0

\* result.structuredContent or {"result": "\n".join(texts)}
Payload(result) ==
    IF result.structuredContent.kind = "dict"
      THEN [result |-> result.structuredContent.result]
      ELSE [result |-> JStr(result.content)]

\* what the backend session answers to call_tool(fn, args)
BackendResults(fn, args) ==
    IF fn = Selection THEN {get_tools_by_category(args)}
    ELSE IF args = "invalid"
      THEN {ToolError(<<"tool error">>)}
    ELSE IF args = "empty"
      THEN {[isError |-> FALSE, structuredContent |-> EmptyDict, content |-> <<>>],
            [isError |-> FALSE, structuredContent |-> EmptyDict,
             content |-> <<"line_1", "line_2">>]}
      ELSE {[isError |-> FALSE, structuredContent |-> Dict(JStr(<<"data">>)),
             content |-> <<"data">>],
            [isError |-> FALSE, structuredContent |-> NoDict, content |-> <<"data">>]}

\* the tool_calls lists a model response may carry
RECURSIVE CallLists(_, _)
CallLists(menu, n) ==
    IF n = 0 THEN {<<>>}
    ELSE CallLists(menu, n - 1) \cup
         {Append(l, d) : l \in {x \in CallLists(menu, n - 1) : Len(x) = n - 1}, d \in menu}

\* msg.content of a response: the answer (possibly absent) of a final
\* response, an interim remark next to tool calls
Contents(calls) == IF calls = <<>> THEN {"answer", None} ELSE {"interim"}

\* the configuration variables, which no step of get_completion changes
chatSetup == <<convSet, callMenu, reqCap, callCap, messages, name_clash>>

\* the value of result before the first call_tool of an invocation
NoResult == [isError |-> FALSE, structuredContent |-> NoDict, content |-> <<>>]

\* an OpenAIClient with its catalogs, and the invocations the run may make
ChatSetup(convs, menu, rc, cc, clash) ==
    /\ convSet = convs
    /\ callMenu = menu
    /\ reqCap = rc
    /\ callCap = cc
    /\ name_clash = clash
    /\ messages = [c \in Convs |-> <<UserTurn>>]
    /\ cpc = [c \in Convs |-> "idle"]
    /\ full_messages = [c \in Convs |-> <<>>]
    /\ current_tools = [c \in Convs |-> <<>>]
    /\ tool_calls = [c \in Convs |-> <<>>]
    /\ callIdx = [c \in Convs |-> 0]
    /\ mcp_lock = None
    /\ requests = [c \in Convs |-> 0]
    /\ final_text = [c \in Convs |-> None]
    /\ tool_result = [c \in Convs |-> NoResult]
    /\ exception = [c \in Convs |-> None]
    /\ request_tools = [c \in Convs |-> <<>>]

ChatInit ==
    ChatSetup({"c1"},
              {[fn |-> "get_player_name_from_id", arguments |-> "valid"],
               [fn |-> Selection, arguments |-> <<"team">>]},
              MaxRequests, MaxCalls, FALSE)

\* variant: the system turn is inserted into the caller's list, which then
\* serves as the transcript
StartCompletionInPlace(c) ==
    /\ c \in convSet
    /\ cpc[c] = "idle"
    /\ messages' = [messages EXCEPT ![c] = <<SystemTurn>> \o @]
    /\ full_messages' = [full_messages EXCEPT ![c] = <<SystemTurn>> \o messages[c]]
    /\ current_tools' = [current_tools EXCEPT ![c] =
                            nba_tools_by_category["base"] \o persistent_tools_openai]
    /\ cpc' = [cpc EXCEPT ![c] = "request"]
    /\ UNCHANGED <<tool_calls, callIdx, mcp_lock, requests, final_text, tool_result,
                   exception, convSet, callMenu, reqCap, callCap, name_clash>>
    /\ UNCHANGED request_tools

\* get_completion(messages): the transcript and the initial tool list
StartCompletion(c) ==
    /\ c \in convSet
    /\ cpc[c] = "idle"
    /\ full_messages' = [full_messages EXCEPT ![c] = <<SystemTurn>> \o messages[c]]
    /\ current_tools' = [current_tools EXCEPT ![c] =
                            nba_tools_by_category["base"] \o persistent_tools_openai]
    /\ cpc' = [cpc EXCEPT ![c] = "request"]
    /\ UNCHANGED <<tool_calls, callIdx, mcp_lock, requests, final_text, tool_result,
                   exception, chatSetup>>
    /\ UNCHANGED request_tools

\* chat.completions.create answers: the response is appended, then either the
\* tool calls are processed or the loop breaks and msg.content is returned
ModelResponds(c, content, calls) ==
    /\ cpc[c] = "request"
    /\ calls # <<>> => requests[c] < reqCap
    /\ LET msg == [role |-> "assistant", content |-> content,
                   tool_calls |-> [i \in DOMAIN calls |->
                        [id |-> <<requests[c] + 1, i>>, fn |-> calls[i].fn,
                         arguments |-> calls[i].arguments]],
                   tool_call_id |-> None]
       IN /\ full_messages' = [full_messages EXCEPT ![c] = Append(@, msg)]
          /\ requests' = [requests EXCEPT ![c] = @ + 1]
          /\ IF ToolCallsPresent(msg)
               THEN /\ tool_calls' = [tool_calls EXCEPT ![c] = msg.tool_calls]
                    /\ callIdx' = [callIdx EXCEPT ![c] = 1]
                    /\ cpc' = [cpc EXCEPT ![c] = "dispatch"]
                    /\ final_text' = final_text
               ELSE /\ tool_calls' = [tool_calls EXCEPT ![c] = msg.tool_calls]
                    /\ callIdx' = [callIdx EXCEPT ![c] = 0]
                    /\ cpc' = [cpc EXCEPT ![c] = "returned"]
                    /\ final_text' = [final_text EXCEPT ![c] = msg.content]
    /\ UNCHANGED <<current_tools, mcp_lock, tool_result, exception, chatSetup>>
    /\ request_tools' = [request_tools EXCEPT ![c] = Append(@, current_tools[c])]

\* the model exchange raises: printed and re-raised
ModelRaises(c) ==
    /\ cpc[c] = "request"
    /\ cpc' = [cpc EXCEPT ![c] = "raised"]
    /\ exception' = [exception EXCEPT ![c] = "model"]
    /\ UNCHANGED <<full_messages, current_tools, tool_calls, callIdx, mcp_lock,
                   requests, final_text, tool_result, chatSetup>>
    /\ request_tools' = [request_tools EXCEPT ![c] = Append(@, current_tools[c])]

\* variant: the call is started without taking self.mcp_lock
AcquireAndCallUnlocked(c) ==
    /\ cpc[c] = "dispatch"
    /\ LET call == tool_calls[c][callIdx[c]]
       IN IF call.arguments = "malformed"
            THEN /\ cpc' = [cpc EXCEPT ![c] = "raised"]
                 /\ exception' = [exception EXCEPT ![c] = "json.loads"]
                 /\ mcp_lock' = mcp_lock
            ELSE IF call.fn \in DOMAIN tool_to_session
                   THEN /\ mcp_lock' = c
                        /\ cpc' = [cpc EXCEPT ![c] = "in_call"]
                        /\ exception' = exception
                   ELSE /\ mcp_lock' = mcp_lock
                        /\ cpc' = [cpc EXCEPT ![c] = "raised"]
                        /\ exception' = [exception EXCEPT ![c] = "tool_to_session"]
    /\ UNCHANGED <<full_messages, current_tools, tool_calls, callIdx, requests,
                   final_text, tool_result, chatSetup>>
    /\ UNCHANGED request_tools

\* json.loads of the arguments, async with self.mcp_lock, the session lookup,
\* and the start of session.call_tool
AcquireAndCall(c) ==
    /\ cpc[c] = "dispatch"
    /\ LET call == tool_calls[c][callIdx[c]]
       IN IF call.arguments = "malformed"
            THEN /\ cpc' = [cpc EXCEPT ![c] = "raised"]
                 /\ exception' = [exception EXCEPT ![c] = "json.loads"]
                 /\ mcp_lock' = mcp_lock
            ELSE /\ mcp_lock = None
                 /\ IF call.fn \in DOMAIN tool_to_session
                      THEN /\ mcp_lock' = c
                           /\ cpc' = [cpc EXCEPT ![c] = "in_call"]
                           /\ exception' = exception
                      ELSE /\ mcp_lock' = None
                           /\ cpc' = [cpc EXCEPT ![c] = "raised"]
                           /\ exception' = [exception EXCEPT ![c] = "tool_to_session"]
    /\ UNCHANGED <<full_messages, current_tools, tool_calls, callIdx, requests,
                   final_text, tool_result, chatSetup>>
    /\ UNCHANGED request_tools

\* session.call_tool returns: the lock is released, the payload is built and a
\* tool turn is appended; a selection call replaces current_tools
ToolReturns(c) ==
    /\ cpc[c] = "in_call"
    /\ mcp_lock = c
    /\ \E r \in BackendResults(tool_calls[c][callIdx[c]].fn,
                               tool_calls[c][callIdx[c]].arguments) :
       LET call == tool_calls[c][callIdx[c]]
           payload == Payload(r)
           last == callIdx[c] = Len(tool_calls[c])
       IN /\ mcp_lock' = None
          /\ tool_result' = [tool_result EXCEPT ![c] = r]
          /\ IF call.fn = Selection /\ ~Indexable(payload.result)
               THEN \* get_tool_subset raises KeyError
                    /\ cpc' = [cpc EXCEPT ![c] = "raised"]
                    /\ exception' = [exception EXCEPT ![c] = "get_tool_subset"]
                    /\ UNCHANGED <<full_messages, current_tools, callIdx>>
               ELSE /\ current_tools' = [current_tools EXCEPT ![c] =
                          IF call.fn = Selection
                            THEN get_tool_subset(payload.result.items)
                                    \o persistent_tools_openai
                            ELSE @]
                    /\ full_messages' = [full_messages EXCEPT ![c] = Append(@,
                          ToolTurn(call.id, IF call.fn = Selection
                                              THEN "Updated tool set." ELSE payload))]
                    /\ callIdx' = [callIdx EXCEPT ![c] = IF last THEN 0 ELSE @ + 1]
                    /\ cpc' = [cpc EXCEPT ![c] = IF last THEN "request" ELSE "dispatch"]
                    /\ exception' = exception
    /\ UNCHANGED <<tool_calls, requests, final_text, chatSetup>>
    /\ UNCHANGED request_tools

\* variant: an exception inside the locked block leaves the lock taken
ToolRaisesHoldingLock(c) ==
    /\ cpc[c] = "in_call"
    /\ mcp_lock = c
    /\ mcp_lock' = mcp_lock
    /\ cpc' = [cpc EXCEPT ![c] = "raised"]
    /\ exception' = [exception EXCEPT ![c] = "call_tool"]
    /\ UNCHANGED <<full_messages, current_tools, tool_calls, callIdx, requests,
                   final_text, tool_result, chatSetup>>
    /\ UNCHANGED request_tools

\* session.call_tool raises: the lock is released and the exception leaves
\* get_completion
ToolRaises(c) ==
    /\ cpc[c] = "in_call"
    /\ mcp_lock = c
    /\ mcp_lock' = None
    /\ cpc' = [cpc EXCEPT ![c] = "raised"]
    /\ exception' = [exception EXCEPT ![c] = "call_tool"]
    /\ UNCHANGED <<full_messages, current_tools, tool_calls, callIdx, requests,
                   final_text, tool_result, chatSetup>>
    /\ UNCHANGED request_tools

NextChat ==
    \/ (\E c \in Convs : StartCompletion(c)) /\ UNCHANGED <<pipeVars, loopVars, extVars>>
    \/ (\E c \in Convs, calls \in CallLists(callMenu, callCap) :
            \E content \in Contents(calls) : ModelResponds(c, content, calls)) /\ UNCHANGED <<pipeVars, loopVars, extVars>>
    \/ (\E c \in Convs : ModelRaises(c)) /\ UNCHANGED <<pipeVars, loopVars, extVars>>
    \/ (\E c \in Convs : AcquireAndCall(c)) /\ UNCHANGED <<pipeVars, loopVars, extVars>>
    \/ (\E c \in Convs : ToolReturns(c)) /\ UNCHANGED <<pipeVars, loopVars, extVars>>
    \/ (\E c \in Convs : ToolRaises(c)) /\ UNCHANGED <<pipeVars, loopVars, extVars>>


(***************************************************************************)
(* Claims about the conversation loop (checked under SpecChat)             *)
(***************************************************************************)
AssistantTurns(m) == {i \in DOMAIN m : m[i].role = "assistant"}

\* C10: get_completion returns exactly at the first model response without
\* tool calls and returns that response's text: a returned invocation ends its
\* transcript with a tool-free assistant turn whose content is the returned
\* value, a tool-free assistant turn is never followed by another turn or
\* another model request, and every model request is in the transcript.
C10_ReturnsAtFirstToolFreeResponse ==
    \A c \in Convs :
        LET m == full_messages[c] IN
        /\ cpc[c] = "returned" =>
              /\ m[Len(m)].role = "assistant"
              /\ m[Len(m)].tool_calls = <<>>
              /\ final_text[c] = m[Len(m)].content
        /\ \A i \in AssistantTurns(m) :
              m[i].tool_calls = <<>> => i = Len(m) /\ cpc[c] = "returned"
        /\ requests[c] = Cardinality(AssistantTurns(m))

\* an invocation has returned after at least one round of tool calls
C10_Witness ==
    \E c \in Convs : cpc[c] = "returned" /\ requests[c] > 1

(***************************************************************************)
(* Claims about category selection (checked under SpecSelect)              *)
(***************************************************************************)
FewCalls == 1       \* tool calls in one model response of the smaller runs

\* a run of one conversation whose model asks for category selections
SelectInit ==
    ChatSetup({"c1"},
              {[fn |-> Selection, arguments |-> <<"player", "team">>],
               [fn |-> Selection, arguments |-> <<"player">>],
               [fn |-> Selection, arguments |-> <<" Player ", "league">>],
               [fn |-> Selection, arguments |-> <<"bogus">>],
               [fn |-> "get_team_name_from_id", arguments |-> "invalid"]},
              MaxRequests, FewCalls, FALSE)

ToolTurns(m) == {i \in DOMAIN m : m[i].role = "tool"}
CallsOf(m) == UNION {{m[i].tool_calls[j] : j \in DOMAIN m[i].tool_calls} : i \in AssistantTurns(m)}
\* the tool call a tool turn answers
CallAnswered(m, i) == CHOOSE k \in CallsOf(m) : k.id = m[i].tool_call_id
\* the call an invocation is processing, and whether it is out on a session
CurrentCall(c) == tool_calls[c][callIdx[c]]
InFlight(c) == cpc[c] = "in_call"

\* C11: a tool call naming the category-selection tool is never sent to a
\* backend session: no call_tool is in flight for it, and the tool turn that
\* answers it is the short acknowledgement.
C11_SelectionNeverRouted ==
    \A c \in Convs :
        /\ InFlight(c) => CurrentCall(c).fn # Selection
        /\ \A i \in ToolTurns(full_messages[c]) :
              CallAnswered(full_messages[c], i).fn = Selection =>
                  full_messages[c][i].content = "Updated tool set."


\* the tool turns that acknowledge a category selection
Acknowledgements(m) == {i \in ToolTurns(m) : CallAnswered(m, i).fn = Selection}
LastAcknowledged(m) ==
    CallAnswered(m, CHOOSE i \in Acknowledgements(m) :
                        \A j \in Acknowledgements(m) : j <= i)
\* names of the nba tools carrying one of the tags, and of the persistent tools
TaggedWith(tags) ==
    {nba_tools[i].name : i \in {k \in DOMAIN nba_tools :
        \E j \in DOMAIN nba_tools[k].category : nba_tools[k].category[j] \in tags}}
PersistentNames == {persistent_tools[i].name : i \in DOMAIN persistent_tools}
NoRepeats(s) == \A i, j \in DOMAIN s : i # j => s[i] # s[j]

\* C12: category selection replaces the visible tool set: at any time the set
\* is given by the last acknowledged selection alone (the base set before any
\* selection): exactly the tools tagged with one of its categories or with
\* base, plus the persistent tools, no name twice.
C12_SelectionReplaces ==
    \A c \in Convs :
        cpc[c] \notin {"off", "idle"} =>
            LET m == full_messages[c]
                acks == Acknowledgements(m)
                categories == IF acks = {} THEN <<>> ELSE LastAcknowledged(m).arguments
                tags == {Normalize(categories[i]) : i \in DOMAIN categories} \cup {"base"}
            IN /\ SeqRange(current_tools[c]) = TaggedWith(tags) \cup PersistentNames
               /\ NoRepeats(current_tools[c])

\* a selection of player and team has been followed by a selection of player
\* alone, and the team tool is no longer visible
C12_Witness ==
    \E c \in Convs :
        LET m == full_messages[c] IN
        /\ Cardinality(Acknowledgements(m)) = 2
        /\ \E i \in Acknowledgements(m) :
              CallAnswered(m, i).arguments = <<"player", "team">>
        /\ LastAcknowledged(m).arguments = <<"player">>
        /\ \A i \in DOMAIN current_tools[c] : current_tools[c][i] # "get_team_name_from_id"
        /\ \E i \in DOMAIN current_tools[c] : current_tools[c][i] = "get_player_name_from_id"


\* does a category list carry a tag the selection tool rejects
HasUnknownTag(categories) ==
    \E i \in DOMAIN categories : Normalize(categories[i]) \notin ALLOWED
\* session.call_tool comes back with a result for the call of c in this step
CallReturns(c) == InFlight(c) /\ cpc'[c] # "in_call" /\ exception'[c] # "call_tool"

\* C13: when a category selection with an unrecognized tag comes back, the
\* result is an error that lists the valid tags, the visible tool set of the
\* conversation is what it was before the call, and the conversation loop
\* goes on (to its next tool call or its next model request).
C13_UnknownTagLeavesToolsUnchanged ==
    [][\A c \in Convs :
          (CallReturns(c) /\ CurrentCall(c).fn = Selection
                          /\ HasUnknownTag(CurrentCall(c).arguments)) =>
              /\ tool_result'[c].isError
              /\ \A t \in ALLOWED : Contains(tool_result'[c].content, t)
              /\ current_tools'[c] = current_tools[c]
              /\ cpc'[c] \in {"request", "dispatch"}]_vars


(***************************************************************************)
(* Claims about failing tool calls (checked under SpecFail)                *)
(***************************************************************************)
\* a run of one conversation whose model asks for calls that go wrong: an
\* error reported by the backend, a name in no catalog, arguments that are
\* not JSON
FailInit ==
    ChatSetup({"c1"},
              {[fn |-> "get_player_name_from_id", arguments |-> "valid"],
               [fn |-> "get_player_name_from_id", arguments |-> "invalid"],
               [fn |-> "no_such_tool", arguments |-> "valid"],
               [fn |-> "perplexity_search", arguments |-> "malformed"]},
              MaxRequests, MaxCalls, FALSE)

\* C14: a failing tool call is never fatal to get_completion: an invocation is
\* left by an exception only when the model exchange raised, and a call the
\* backend answered with an error has its error text appended as the tool
\* turn's payload before the loop goes on.
C14_ToolFailureNotFatal ==
    \A c \in Convs :
        LET m == full_messages[c] IN
        /\ cpc[c] = "raised" => exception[c] = "model"
        /\ (/\ cpc[c] \in {"request", "dispatch"}
            /\ m[Len(m)].role = "tool"
            /\ CallAnswered(m, Len(m)).fn # Selection
            /\ tool_result[c].isError) =>
                m[Len(m)].content = [result |-> JStr(tool_result[c].content)]


(***************************************************************************)
(* Claims about conversations running at once on one OpenAIClient          *)
(* (checked under SpecConc)                                                *)
(***************************************************************************)
ConcRequests == 1   \* tool-calling responses per invocation when two run at once

\* two get_completion invocations whose model asks for an nba call (the
\* category selection) or a perplexity call
ConcInit ==
    ChatSetup({"c1", "c2"},
              {[fn |-> Selection, arguments |-> <<"team">>],
               [fn |-> "perplexity_search", arguments |-> "invalid"]},
              ConcRequests, FewCalls, FALSE)

\* the session the current call of c is sent to
session_name(c) == tool_to_session[CurrentCall(c).fn]

\* the keys of mcp_sessions, and the invocations with a call out on a session
Sessions == {"nba", "perplexity"}
InFlightOn(s) == {c \in Convs : InFlight(c) /\ session_name(c) = s}

\* C15: at most one tool invocation is in flight on a backend session at any
\* time, across all the conversations sharing the client.
C15_OneCallPerSession ==
    \A s \in Sessions : Cardinality(InFlightOn(s)) <= 1

\* one conversation has a call in flight on a session while the other stands
\* ready to send a call to the same session
C15_Witness ==
    \E c, d \in Convs :
        /\ c # d /\ InFlight(c) /\ cpc[d] = "dispatch"
        /\ CurrentCall(d).fn \in DOMAIN tool_to_session
        /\ session_name(c) = session_name(d)


\* C16: tool invocations on different backends may proceed concurrently (one
\* lock per backend): a conversation standing ready to send a call to one
\* session can start it while another conversation's call is in flight on
\* the other session, which makes a state with a call in flight on the nba
\* session and one on the perplexity session reachable.
C16_DifferentBackendsConcurrent ==
    \A c, d \in Convs :
        (/\ c # d /\ InFlight(c) /\ cpc[d] = "dispatch"
         /\ CurrentCall(d).arguments # "malformed"
         /\ CurrentCall(d).fn \in DOMAIN tool_to_session
         /\ session_name(d) # session_name(c)) => ENABLED AcquireAndCall(d)


\* C18: the transcript and the visible tool set belong to one get_completion
\* invocation: they change only in a step of that invocation (every step of
\* an invocation moves its position), so a turn appended or a selection made
\* by one conversation leaves those of the other as they were; and the
\* caller's message list is never modified.
C18_ConversationStateOwned ==
    [][/\ messages' = messages
       /\ \A c \in Convs :
             cpc'[c] = cpc[c] =>
                 /\ full_messages'[c] = full_messages[c]
                 /\ current_tools'[c] = current_tools[c]]_vars

\* both conversations are under way, one has appended turns and replaced its
\* tool set by a selection, the other still has its initial ones
C18_Witness ==
    \E c, d \in Convs :
        /\ c # d
        /\ cpc[c] = "request" /\ Acknowledgements(full_messages[c]) # {}
        /\ cpc[d] = "request" /\ full_messages[d] = <<SystemTurn>> \o messages[d]
        /\ current_tools[c] # current_tools[d]
        /\ messages[c] = <<UserTurn>>


(***************************************************************************)
(* Claims about the transcript (checked under SpecChat)                    *)
(***************************************************************************)
\* the tool turns of m that carry the identifier of a call
AnswersTo(m, id) == {t \in ToolTurns(m) : m[t].tool_call_id = id}

\* C17: whenever get_completion is about to send a model request, every tool
\* call of every earlier assistant turn has exactly one tool turn carrying its
\* identifier, and the tool turns of an assistant turn follow it directly in
\* the order of its calls.
C17_ToolTurnsPairedInOrder ==
    \A c \in Convs :
        cpc[c] = "request" =>
            LET m == full_messages[c] IN
            \A i \in AssistantTurns(m) :
                /\ i + Len(m[i].tool_calls) <= Len(m)
                /\ \A j \in DOMAIN m[i].tool_calls :
                      /\ m[i + j].role = "tool"
                      /\ m[i + j].tool_call_id = m[i].tool_calls[j].id
                      /\ Cardinality(AnswersTo(m, m[i].tool_calls[j].id)) = 1

\* a second model request is about to be sent after a response that carried
\* two tool calls
C17_Witness ==
    \E c \in Convs :
        /\ cpc[c] = "request" /\ requests[c] >= 1
        /\ \E i \in AssistantTurns(full_messages[c]) : Len(full_messages[c][i].tool_calls) = 2


(***************************************************************************)
(* Claims about routing (checked under SpecRoute)                          *)
(***************************************************************************)
\* one conversation on a client built from catalogs that share a tool name,
\* or from catalogs that do not
RouteInit ==
    \E clash \in BOOLEAN :
        ChatSetup({"c1"},
                  {[fn |-> "get_team_name_from_id", arguments |-> "invalid"],
                   [fn |-> "get_player_name_from_id", arguments |-> "invalid"],
                   [fn |-> "perplexity_search", arguments |-> "invalid"]},
                  MaxRequests, FewCalls, clash)

\* the tool names of a backend's catalog
Catalog(s) == IF s = "nba" THEN {nba_tools[i].name : i \in DOMAIN nba_tools}
              ELSE PersistentNames

\* C19: every tool name of the catalogs is associated with exactly one
\* backend, one whose catalog holds that name, and a tool call other than a
\* category selection that is in flight is on the session of a backend whose
\* catalog holds its name, also when both catalogs hold it.
C19_RoutedToOwningBackend ==
    /\ DOMAIN tool_to_session = Catalog("nba") \cup Catalog("perplexity")
    /\ \A n \in DOMAIN tool_to_session :
          tool_to_session[n] \in Sessions /\ n \in Catalog(tool_to_session[n])
    /\ \A c \in Convs :
          (InFlight(c) /\ CurrentCall(c).fn # Selection) =>
              CurrentCall(c).fn \in Catalog(session_name(c))

\* a call to a tool whose name both catalogs hold is in flight
C19_Witness ==
    \E c \in Convs :
        /\ InFlight(c)
        /\ CurrentCall(c).fn \in Catalog("nba") \cap Catalog("perplexity")
        /\ session_name(c) = "perplexity"


(***************************************************************************)
(* Claims about the tool result payload (checked under SpecPayload)        *)
(***************************************************************************)
\* one conversation whose tool calls come back with a structured payload,
\* with text only, with an empty structured payload, or with an error text
PayloadInit ==
    ChatSetup({"c1"},
              {[fn |-> "get_player_name_from_id", arguments |-> "valid"],
               [fn |-> "get_player_name_from_id", arguments |-> "empty"],
               [fn |-> "get_player_name_from_id", arguments |-> "invalid"]},
              MaxRequests, FewCalls, FALSE)

\* the JSON object {}
EmptyObject == [k \in {} |-> JStr(<<>>)]
\* a structured payload as the backend provided it
Provided(structuredContent) ==
    IF structuredContent.kind = "dict" THEN [result |-> structuredContent.result]
    ELSE EmptyObject

\* C20: the payload of the tool turn appended for a tool call is the backend's
\* structured payload unchanged whenever the result provides one, an empty
\* one included; only when the result provides none is it {"result": text},
\* text being the textual content fragments in order, joined with newlines.
C20_StructuredPayloadPassedThrough ==
    \A c \in Convs :
        LET m == full_messages[c]
            r == tool_result[c]
        IN (/\ cpc[c] \in {"request", "dispatch"}
            /\ m[Len(m)].role = "tool"
            /\ CallAnswered(m, Len(m)).fn # Selection) =>
                m[Len(m)].content =
                    IF r.structuredContent.kind = "none"
                      THEN [result |-> JStr(r.content)]
                      ELSE Provided(r.structuredContent)


(***************************************************************************)
(* Tool descriptor conversion: mcp_tools_to_openai_tools                   *)
(* (server/openai_client.py)                                               *)
(***************************************************************************)
MaxTools == 2       \* descriptors in one catalog handed to the conversion

\* an optional JSON object is [present, value]: Python None has present FALSE,
\* a dict is given as a function of its keys ({} is <<>>)
Absent == [present |-> FALSE, value |-> <<>>]
\* the dict {"type": "object", "properties": {}}
EmptyObjectSchema == [type |-> "object", properties |-> <<>>]

\* the tool descriptors a catalog may hold: name, description (None, "" or a
\* text) and inputSchema (None, {} or an object schema with one property)
Descriptors ==
    [name : {"get_all_players", "perplexity_search"},
     description : {None, "", "Look up"},
     inputSchema : {Absent,
                    [present |-> TRUE, value |-> <<>>],
                    [present |-> TRUE,
                     value |-> [type |-> "object", properties |-> [query |-> "string"]]]}]

\* "x or default" takes the default for every falsy x: None, "" and {}

mcp_tools_to_openai_tools(tools) ==
    [i \in DOMAIN tools |->
        [type |-> "function",
         function |->
            [name |-> tools[i].name,
             description |-> IF tools[i].description \notin {None, ""}
                               THEN tools[i].description ELSE "",
             parameters |-> IF tools[i].inputSchema.present
                                 /\ tools[i].inputSchema.value # <<>>
                              THEN tools[i].inputSchema.value
                              ELSE EmptyObjectSchema]]]

Convert ==
    /\ convPc = "ready"
    /\ convPc' = "converted"
    /\ openai_tools' = mcp_tools_to_openai_tools(mcp_tools)
    /\ UNCHANGED mcp_tools
    /\ UNCHANGED <<pipeVars, loopVars, chatVars, tagVars, retryVars, connVars, postVars>>

\* C21: the conversion is lossless: the converted list has one function
\* definition per descriptor, in the same order, with the same name and
\* exactly the descriptor's parameter schema; the schema
\* {"type": "object", "properties": {}} stands in only for a descriptor that
\* has no schema.
C21_ConversionLossless ==
    convPc = "converted" =>
        /\ Len(openai_tools) = Len(mcp_tools)
        /\ \A i \in DOMAIN mcp_tools :
              /\ openai_tools[i].function.name = mcp_tools[i].name
              /\ openai_tools[i].function.parameters =
                    IF mcp_tools[i].inputSchema.present
                      THEN mcp_tools[i].inputSchema.value
                      ELSE EmptyObjectSchema

(***************************************************************************)
(* Category selection tool: get_tools_by_category                          *)
(* (nba_mcp_server/mcp_server.py), called on its own                       *)
(***************************************************************************)
MaxTags == 3        \* tags in one categories argument

\* the tags a caller may send, in several spellings
RawTags == {"player", " Player ", "team", "TEAM", "league", "bogus", "base", "Base "}

CallSelectionTool ==
    /\ tagPc = "ready"
    /\ tagPc' = "returned"
    /\ selection_result' = get_tools_by_category(tag_request)
    /\ UNCHANGED tag_request
    /\ UNCHANGED <<pipeVars, loopVars, chatVars, convVars, retryVars, connVars, postVars>>

\* the contract of the selection tool over a given set of accepted tags
SelectionContract(accepted) ==
    tagPc = "returned" =>
        LET requested == {Normalize(tag_request[i]) : i \in DOMAIN tag_request}
            items == selection_result.structuredContent.result.items
        IN IF requested \subseteq accepted
             THEN /\ ~selection_result.isError
                  /\ selection_result.structuredContent.kind = "dict"
                  /\ SeqRange(items) = requested \cup {"base"}
                  /\ \A i, j \in DOMAIN items :
                        i < j => IndexOf(TagOrder, items[i]) < IndexOf(TagOrder, items[j])
             ELSE /\ selection_result.isError
                  /\ ALLOWED \subseteq SeqRange(selection_result.content)

\* C22 as stated: for every list of tags that are all in the taxonomy
\* (ToolCategory) after lower-casing and trimming, get_tools_by_category
\* returns the sorted, duplicate-free union of the normalized tags with
\* "base", whatever the order, case, spacing or repetition of the input; a tag
\* outside the taxonomy causes rejection with an error listing the valid set.
C22_SelectionOverTaxonomy == SelectionContract(ToolCategory)

\* C22 amended: the same contract over the tags of the taxonomy other than
\* "base"; a request naming "base" itself is rejected like an unknown tag.
C22_SelectionOverAllowed == SelectionContract(ALLOWED)

\* a request with a repeated tag in two spellings was answered with the
\* sorted union
C22_Witness ==
    /\ tagPc = "returned"
    /\ tag_request = <<"TEAM", " Player ", "player">>
    /\ selection_result.structuredContent = Dict(JList(<<"base", "player", "team">>))

(***************************************************************************)
(* POST /reports/match-analysis stores all or nothing (SpecPipeline)       *)
(***************************************************************************)
\* C23: a report is stored only after research and writing have both
\* completed without error: when a report exists the request has run every
\* research agent and every function of the last generate_research and the
\* writer to completion and no task has failed; a request that ended in an
\* error has stored no report; one request stores at most one report.
C23_ReportOnlyAfterSuccess ==
    /\ reports <= 1
    /\ hpc = "error" => reports = 0
    /\ reports > 0 =>
          /\ hpc = "completed"
          /\ Writer \in produced
          /\ \A a \in AgentNames : agentPc[a] = "done"
          /\ \A f \in FunctionNames : funcPc[f] = "done"
          /\ \A t \in Tasks : ~Failed(t)

\* a request that stored its report
C23_Witness == reports = 1 /\ hpc = "completed" /\ Writer \in produced

(***************************************************************************)
(* NBA fetch helpers under @retry (agents/match_analysis/                  *)
(* data_preprocessing.py): stop_after_attempt, wait_exponential            *)
(***************************************************************************)
MaxFetches == 2     \* helper calls made by one caller

wait_mult == 2
wait_min == 4
wait_max == 30
stop_after_attempt == 5
Helpers == {"_get_box_advanced", "_get_box_traditional", "_get_game_record"}

\* variant: the computed wait is used as it is
wait_exponential_unclamped(n) == wait_mult * 2 ^ (n - 1)

\* wait_exponential(multiplier, min, max) after attempt n:
\* multiplier * 2 ** (n - 1), clamped to [min, max]
wait_exponential(n) ==
    LET result == wait_mult * 2 ^ (n - 1)
        capped == IF result < wait_max THEN result ELSE wait_max
        floor == IF wait_min > 0 THEN wait_min ELSE 0
    IN IF capped > floor THEN capped ELSE floor

\* the caller calls a helper; a helper that raised has ended its caller
CallHelper(fn) ==
    /\ retryPc \in {"idle", "returned"}
    /\ Len(fetched) < MaxFetches
    /\ retryPc' = "attempting"
    /\ helper' = fn
    /\ attempt_number' = 1
    /\ outcomes' = <<>>
    /\ waits' = <<>>
    /\ UNCHANGED fetched

\* the helper's body returns: the decorator returns its value
AttemptSucceeds ==
    /\ retryPc = "attempting"
    /\ outcomes' = Append(outcomes, "returned")
    /\ retryPc' = "returned"
    /\ fetched' = Append(fetched, [helper |-> helper, attempts |-> attempt_number])
    /\ UNCHANGED <<helper, attempt_number, waits>>

\* the helper's body raises: stop, or sleep before the next attempt
AttemptFails ==
    /\ retryPc = "attempting"
    /\ outcomes' = Append(outcomes, "raised")
    /\ IF attempt_number >= stop_after_attempt
         THEN retryPc' = "raised" /\ waits' = waits
         ELSE /\ retryPc' = "sleeping"
              /\ waits' = Append(waits, wait_exponential(attempt_number))
    /\ UNCHANGED <<helper, attempt_number, fetched>>

\* the sleep ends and the next attempt begins
NextAttempt ==
    /\ retryPc = "sleeping"
    /\ retryPc' = "attempting"
    /\ attempt_number' = attempt_number + 1
    /\ UNCHANGED <<helper, outcomes, waits, fetched>>

NextRetry ==
    \/ (\E fn \in Helpers : CallHelper(fn)) /\ UNCHANGED <<pipeVars, loopVars, chatVars, convVars, tagVars, connVars, postVars>>
    \/ AttemptSucceeds /\ UNCHANGED <<pipeVars, loopVars, chatVars, convVars, tagVars, connVars, postVars>>
    \/ AttemptFails /\ UNCHANGED <<pipeVars, loopVars, chatVars, convVars, tagVars, connVars, postVars>>
    \/ NextAttempt /\ UNCHANGED <<pipeVars, loopVars, chatVars, convVars, tagVars, connVars, postVars>>

\* C24: one call of a fetch helper makes at most 5 attempts; it returns at
\* the first attempt that succeeds (every attempt before the last one made
\* has failed and nothing is attempted after a success); the waits after
\* failed attempts never decrease and lie within 4..30 seconds; the call
\* raises only after the 5th attempt has failed.
C24_BoundedRetry ==
    /\ Len(outcomes) <= 5
    /\ \A i \in DOMAIN outcomes : i < Len(outcomes) => outcomes[i] = "raised"
    /\ retryPc = "returned" => outcomes[Len(outcomes)] = "returned"
    /\ retryPc = "raised" =>
          Len(outcomes) = 5 /\ \A i \in DOMAIN outcomes : outcomes[i] = "raised"
    /\ retryPc = "sleeping" => outcomes[Len(outcomes)] = "raised" /\ Len(outcomes) < 5
    /\ \A i \in DOMAIN waits : waits[i] >= 4 /\ waits[i] <= 30
    /\ \A i, j \in DOMAIN waits : i < j => waits[i] <= waits[j]
    /\ Len(waits) = Cardinality({i \in DOMAIN outcomes : outcomes[i] = "raised"})
                      - (IF retryPc = "raised" THEN 1 ELSE 0)

\* a call that failed five times and raised, having slept 4, 4, 8 and 16 seconds
C24_Witness ==
    /\ retryPc = "raised"
    /\ attempt_number = 5
    /\ waits = <<4, 4, 8, 16>>

(***************************************************************************)
(* Scope of the lock (SpecConc)                                            *)
(***************************************************************************)
\* C25: the backend lock is held only for the duration of one tool
\* invocation: whoever holds it is inside session.call_tool; a conversation
\* that waits for a model response, stands between two tool calls, has
\* returned or has raised does not hold it, so the lock is released after
\* every invocation, whether it returned or raised.
C25_LockHeldOnlyDuringCall ==
    \A c \in Convs :
        /\ mcp_lock = c => cpc[c] = "in_call"
        /\ cpc[c] \in {"idle", "request", "dispatch", "returned", "raised"} => mcp_lock # c

\* one conversation's tool invocation raised and the other conversation has
\* taken the lock since
C25_Witness ==
    \E c, d \in Convs :
        /\ c # d
        /\ cpc[c] = "raised" /\ exception[c] = "call_tool"
        /\ cpc[d] = "in_call" /\ mcp_lock = d

(***************************************************************************)
(* The tool list of each model request (SpecSelect, SpecChat)              *)
(***************************************************************************)
\* C26: through any sequence of category selections, the tool list of every
\* model request contains every tool of the base category and every
\* persistent tool.
C26_BaseAndPersistentAlwaysVisible ==
    \A c \in Convs :
        \A k \in DOMAIN request_tools[c] :
            /\ SeqRange(nba_tools_by_category["base"]) \subseteq SeqRange(request_tools[c][k])
            /\ PersistentNames \subseteq SeqRange(request_tools[c][k])

\* three model requests were sent, two selections apart, and the last one
\* carried another list than the first
C26_Witness ==
    \E c \in Convs :
        /\ Len(request_tools[c]) = 3
        /\ Cardinality(Acknowledgements(full_messages[c])) = 2
        /\ request_tools[c][3] # request_tools[c][1]

\* C27: a selection call changes the tool list only of later model requests:
\* the list a request carried is the one given by the selections acknowledged
\* before that request was sent (the base list when there are none), so the
\* request sent after a turn with a selection carries exactly the newly
\* selected list; and every other tool call of a turn that holds a selection
\* call, before it or after it, is answered: once the processing of the turn
\* has ended, each call of the turn has its tool turn in the transcript.
C27_SelectionTakesEffectNextRequest ==
    \A c \in Convs :
        LET m == full_messages[c]
            turns == AssistantTurns(m)
            Sent(k) == IF k <= Cardinality(turns)
                         THEN SubSeq(m, 1, (CHOOSE i \in turns :
                                  Cardinality({j \in turns : j <= i}) = k) - 1)
                         ELSE m
            Tags(p) == LET categories == IF Acknowledgements(p) = {} THEN <<>>
                                         ELSE LastAcknowledged(p).arguments
                       IN {Normalize(categories[i]) : i \in DOMAIN categories} \cup {"base"}
        IN /\ \A k \in DOMAIN request_tools[c] :
                 SeqRange(request_tools[c][k]) = TaggedWith(Tags(Sent(k))) \cup PersistentNames
           /\ cpc[c] \notin {"dispatch", "in_call"} =>
                 \A i \in turns :
                     (\E j \in DOMAIN m[i].tool_calls : m[i].tool_calls[j].fn = Selection) =>
                         \A j \in DOMAIN m[i].tool_calls :
                             m[i].tool_calls[j].fn # Selection =>
                                 /\ i + j <= Len(m)
                                 /\ m[i + j].role = "tool"
                                 /\ m[i + j].tool_call_id = m[i].tool_calls[j].id

(***************************************************************************)
(* ConnectionManager (server/connection_manager.py)                        *)
(***************************************************************************)
ChatIds == {"chat1", "chat2"}
WebSockets == {"ws1", "ws2"}

\* __init__: an empty registry and a free lock
ConnectionManagerInit ==
    /\ connections = <<>>
    /\ lock = None
    /\ last_call = [op |-> None, chat_id |-> None, websocket |-> None]
    /\ sending_to = None
    /\ snapshot = <<>>
    /\ pending = {}
    /\ broken = {}
    /\ attempts = [ws \in WebSockets |-> 0]

\* discard the websockets from the chat's set and delete the key of an empty set
Without(registry, chat_id, gone) ==
    IF registry[chat_id] \ gone = {}
      THEN [c \in DOMAIN registry \ {chat_id} |-> registry[c]]
      ELSE [c \in DOMAIN registry |->
                IF c = chat_id THEN registry[c] \ gone ELSE registry[c]]

\* variant: connect does not wait for the lock
connect_unlocked(chat_id, websocket) ==
    /\ connections' = [c \in DOMAIN connections \cup {chat_id} |->
                          IF c = chat_id
                            THEN (IF c \in DOMAIN connections THEN connections[c] ELSE {})
                                    \cup {websocket}
                            ELSE connections[c]]
    /\ last_call' = [op |-> "connect", chat_id |-> chat_id, websocket |-> websocket]
    /\ UNCHANGED <<lock, sending_to, snapshot, pending, broken, attempts>>

\* connect: no await inside the locked block
connect(chat_id, websocket) ==
    /\ lock = None
    /\ connections' = [c \in DOMAIN connections \cup {chat_id} |->
                          IF c = chat_id
                            THEN (IF c \in DOMAIN connections THEN connections[c] ELSE {})
                                    \cup {websocket}
                            ELSE connections[c]]
    /\ last_call' = [op |-> "connect", chat_id |-> chat_id, websocket |-> websocket]
    /\ UNCHANGED <<lock, sending_to, snapshot, pending, broken, attempts>>

\* variant: the set is left in the registry when it becomes empty
disconnect_without_cleanup(chat_id, websocket) ==
    /\ lock = None
    /\ connections' = IF chat_id \in DOMAIN connections
                        THEN [connections EXCEPT ![chat_id] = @ \ {websocket}]
                        ELSE connections
    /\ last_call' = [op |-> "disconnect", chat_id |-> chat_id, websocket |-> websocket]
    /\ UNCHANGED <<lock, sending_to, snapshot, pending, broken, attempts>>

\* disconnect: no await inside the locked block
disconnect(chat_id, websocket) ==
    /\ lock = None
    /\ connections' = IF chat_id \in DOMAIN connections
                        THEN Without(connections, chat_id, {websocket})
                        ELSE connections
    /\ last_call' = [op |-> "disconnect", chat_id |-> chat_id, websocket |-> websocket]
    /\ UNCHANGED <<lock, sending_to, snapshot, pending, broken, attempts>>

\* send_to_chat takes the lock: it returns at once for a chat without
\* connections, else it starts the for loop over self.connections[chat_id]
send_to_chat(chat_id) ==
    /\ lock = None
    /\ last_call' = [op |-> "send_to_chat", chat_id |-> chat_id, websocket |-> None]
    /\ IF chat_id \notin DOMAIN connections
         THEN UNCHANGED <<lock, sending_to, snapshot, pending, broken, attempts>>
         ELSE /\ lock' = "send_to_chat"
              /\ sending_to' = chat_id
              /\ snapshot' = connections
              /\ pending' = connections[chat_id]
              /\ broken' = {}
              /\ attempts' = [ws \in WebSockets |-> 0]
    /\ UNCHANGED connections

\* one pass of the for loop: await websocket.send_json, which returns or raises
send_json(websocket, ok) ==
    /\ lock = "send_to_chat"
    /\ websocket \in pending
    /\ pending' = pending \ {websocket}
    /\ attempts' = [attempts EXCEPT ![websocket] = @ + 1]
    /\ broken' = IF ok THEN broken ELSE broken \cup {websocket}
    /\ UNCHANGED <<connections, lock, last_call, sending_to, snapshot>>

\* the for loop is over: the broken connections are removed, the lock released
RemoveBroken ==
    /\ lock = "send_to_chat"
    /\ pending = {}
    /\ connections' = Without(connections, sending_to, broken)
    /\ lock' = None
    /\ UNCHANGED <<last_call, sending_to, snapshot, pending, broken, attempts>>

NextConnections ==
    \/ (\E chat_id \in ChatIds, websocket \in WebSockets : connect(chat_id, websocket))
          /\ UNCHANGED <<pipeVars, loopVars, chatVars, convVars, tagVars, retryVars, postVars>>
    \/ (\E chat_id \in ChatIds, websocket \in WebSockets : disconnect(chat_id, websocket))
          /\ UNCHANGED <<pipeVars, loopVars, chatVars, convVars, tagVars, retryVars, postVars>>
    \/ (\E chat_id \in ChatIds : send_to_chat(chat_id))
          /\ UNCHANGED <<pipeVars, loopVars, chatVars, convVars, tagVars, retryVars, postVars>>
    \/ (\E websocket \in WebSockets, ok \in BOOLEAN : send_json(websocket, ok))
          /\ UNCHANGED <<pipeVars, loopVars, chatVars, convVars, tagVars, retryVars, postVars>>
    \/ RemoveBroken
          /\ UNCHANGED <<pipeVars, loopVars, chatVars, convVars, tagVars, retryVars, postVars>>

\* C28: after any sequence of connect, disconnect and send_to_chat calls no
\* chat id maps to an empty set, so a chat id is a key of the registry exactly
\* when it has a registered connection: a connection just connected is
\* registered under its chat, one just disconnected is not; and a disconnect
\* of a connection or chat that is not registered leaves the registry as it
\* was.
C28_RegistryHasNoEmptySets ==
    /\ [](/\ \A chat_id \in DOMAIN connections : connections[chat_id] # {}
          /\ last_call.op = "connect" =>
                /\ last_call.chat_id \in DOMAIN connections
                /\ last_call.websocket \in connections[last_call.chat_id]
          /\ (last_call.op = "disconnect" /\ last_call.chat_id \in DOMAIN connections) =>
                last_call.websocket \notin connections[last_call.chat_id])
    /\ [][\A chat_id \in ChatIds, websocket \in WebSockets :
            (/\ disconnect(chat_id, websocket)
             /\ \/ chat_id \notin DOMAIN connections
                \/ websocket \notin connections[chat_id]) =>
                connections' = connections]_vars

\* the last connection of a chat was disconnected and the chat's key is gone,
\* while the other chat is still registered
C28_Witness ==
    /\ last_call = [op |-> "disconnect", chat_id |-> "chat1", websocket |-> "ws1"]
    /\ DOMAIN connections = {"chat2"}
    /\ snapshot # <<>> /\ "chat1" \in DOMAIN snapshot

\* C29: a broadcast attempts delivery exactly once to every connection that
\* was registered for its chat when it started and to no other connection;
\* when it ends, the connections whose send failed have been removed from the
\* chat and all others are still registered, a failed send having stopped no
\* later send; while the broadcast iterates the registry stays what it was when
\* the broadcast started: no connect and no disconnect takes effect.
C29_BroadcastReachesAllOnce ==
    /\ [](/\ lock = "send_to_chat" => connections = snapshot
          /\ sending_to # None =>
                \A ws \in WebSockets :
                    /\ attempts[ws] <= 1
                    /\ attempts[ws] = 1 => ws \in snapshot[sending_to]
                    /\ ws \in broken => attempts[ws] = 1)
    /\ [][(lock = "send_to_chat" /\ lock' = None) =>
            /\ \A ws \in snapshot[sending_to] : attempts[ws] = 1
            /\ \A chat_id \in ChatIds \ {sending_to} :
                  /\ chat_id \in DOMAIN connections' <=> chat_id \in DOMAIN snapshot
                  /\ chat_id \in DOMAIN snapshot => connections'[chat_id] = snapshot[chat_id]
            /\ sending_to \in DOMAIN connections' <=> snapshot[sending_to] \ broken # {}
            /\ sending_to \in DOMAIN connections' =>
                  connections'[sending_to] = snapshot[sending_to] \ broken]_vars

\* a broadcast to a chat with two connections has ended: the first send
\* failed, the second was still made, and only the second connection is left
C29_Witness ==
    /\ lock = None
    /\ sending_to = "chat1"
    /\ snapshot["chat1"] = {"ws1", "ws2"}
    /\ broken = {"ws1"}
    /\ attempts = [ws \in WebSockets |-> 1]
    /\ last_call.op = "send_to_chat"
    /\ "chat1" \in DOMAIN connections
    /\ connections["chat1"] = {"ws2"}

(***************************************************************************)
(* POST /chat and generate_assistant_reply (server/main.py)                *)
(***************************************************************************)
\* the POST /chat requests made to one chat
Requests == {"r1", "r2"}

\* the message_created event built from a stored row
MessageCreated(id) == [type |-> "message_created", id |-> id,
                       role |-> chat_messages[id].role]

\* the handler up to its first await: insert_message, get_chat_messages,
\* user_msg = messages[-1]
PostChat(r) ==
    /\ ppc[r] = "idle"
    /\ chat_messages' = Append(chat_messages, [role |-> "user", request |-> r])
    /\ user_msg' = [user_msg EXCEPT ![r] = Len(chat_messages) + 1]
    /\ ppc' = [ppc EXCEPT ![r] = "inserted"]
    /\ UNCHANGED <<broadcasts, response>>

\* send_to_chat for the user message, then add_task and the response
BroadcastUserMessage(r) ==
    /\ ppc[r] = "inserted"
    /\ broadcasts' = Append(broadcasts, MessageCreated(user_msg[r]))
    /\ response' = [response EXCEPT ![r] = "queued"]
    /\ ppc' = [ppc EXCEPT ![r] = "responded"]
    /\ UNCHANGED <<chat_messages, user_msg>>

\* variant: the reply is generated as soon as the user message is stored
StartReplyBeforeBroadcast(r) ==
    /\ ppc[r] \in {"inserted", "responded"}
    /\ ppc' = [ppc EXCEPT ![r] = "generating"]
    /\ UNCHANGED <<chat_messages, broadcasts, user_msg, response>>

\* the background task runs after the response: history, then get_completion
StartReply(r) ==
    /\ ppc[r] = "responded"
    /\ ppc' = [ppc EXCEPT ![r] = "generating"]
    /\ UNCHANGED <<chat_messages, broadcasts, user_msg, response>>

\* get_completion returns: insert_message, get_chat_messages, messages[-1]
ReplyGenerated(r) ==
    /\ ppc[r] = "generating"
    /\ chat_messages' = Append(chat_messages, [role |-> "assistant", request |-> r])
    /\ ppc' = [ppc EXCEPT ![r] = "stored"]
    /\ UNCHANGED <<broadcasts, user_msg, response>>

\* get_completion raises: the except clause prints the error
ReplyFails(r) ==
    /\ ppc[r] = "generating"
    /\ ppc' = [ppc EXCEPT ![r] = "failed"]
    /\ UNCHANGED <<chat_messages, broadcasts, user_msg, response>>

\* send_to_chat for the assistant message
BroadcastAssistantMessage(r) ==
    /\ ppc[r] = "stored"
    /\ broadcasts' = Append(broadcasts,
          MessageCreated(CHOOSE id \in DOMAIN chat_messages :
              chat_messages[id] = [role |-> "assistant", request |-> r]))
    /\ ppc' = [ppc EXCEPT ![r] = "done"]
    /\ UNCHANGED <<chat_messages, user_msg, response>>

NextPost ==
    \/ (\E r \in Requests : PostChat(r))
          /\ UNCHANGED <<pipeVars, loopVars, chatVars, convVars, tagVars, retryVars, connVars>>
    \/ (\E r \in Requests : BroadcastUserMessage(r))
          /\ UNCHANGED <<pipeVars, loopVars, chatVars, convVars, tagVars, retryVars, connVars>>
    \/ (\E r \in Requests : StartReply(r))
          /\ UNCHANGED <<pipeVars, loopVars, chatVars, convVars, tagVars, retryVars, connVars>>
    \/ (\E r \in Requests : ReplyGenerated(r))
          /\ UNCHANGED <<pipeVars, loopVars, chatVars, convVars, tagVars, retryVars, connVars>>
    \/ (\E r \in Requests : ReplyFails(r))
          /\ UNCHANGED <<pipeVars, loopVars, chatVars, convVars, tagVars, retryVars, connVars>>
    \/ (\E r \in Requests : BroadcastAssistantMessage(r))
          /\ UNCHANGED <<pipeVars, loopVars, chatVars, convVars, tagVars, retryVars, connVars>>

\* C30: for every POST /chat request: each message_created event is for a
\* message already stored, the user's or the assistant's; the event for the
\* request's own user message comes before its reply is generated, hence
\* before any event for its assistant message; the assistant message is
\* stored before its event; and when the generation fails, no assistant
\* message of the request is stored or broadcast while the client has the
\* normal response.
C30_PersistThenBroadcastThenReply ==
    /\ \A e \in DOMAIN broadcasts :
          /\ broadcasts[e].id \in DOMAIN chat_messages
          /\ broadcasts[e].role = chat_messages[broadcasts[e].id].role
    /\ \A r \in Requests :
          LET mine(role) == {e \in DOMAIN broadcasts :
                                chat_messages[broadcasts[e].id] =
                                    [role |-> role, request |-> r]}
              stored(role) == {id \in DOMAIN chat_messages :
                                chat_messages[id] = [role |-> role, request |-> r]}
          IN /\ Cardinality(mine("user")) <= 1 /\ Cardinality(mine("assistant")) <= 1
             /\ mine("user") # {} => stored("user") # {}
             /\ (ppc[r] \in {"generating", "stored", "failed", "done"}
                   \/ stored("assistant") # {}) => mine("user") # {}
             /\ \A a \in mine("assistant") : \A u \in mine("user") : u < a
             /\ mine("assistant") # {} => stored("assistant") # {}
             /\ ppc[r] = "failed" =>
                   /\ stored("assistant") = {}
                   /\ mine("assistant") = {}
                   /\ response[r] = "queued"

\* one request's reply was stored and broadcast after its user message, and
\* another request's generation failed leaving only its user message
C30_Witness ==
    \E r, q \in Requests :
        /\ ppc[r] = "done" /\ ppc[q] = "failed"
        /\ Len(broadcasts) = 3
        /\ Len(chat_messages) = 3

(***************************************************************************)
(* Specifications                                                          *)
(***************************************************************************)
PipelineParked ==
    /\ hpc = "off" /\ pass = 1
    /\ agentPc = [a \in AgentNames |-> "idle"]
    /\ funcPc = [f \in FunctionNames |-> "idle"]
    /\ execCount = [t \in Tasks |-> 0]
    /\ produced = {} /\ reports = 0

LoopParked ==
    /\ lkind = "research" /\ state_injection = FALSE /\ lpc = "off"
    /\ times_looped = 0 /\ critique = None /\ results = <<>>
    /\ workerLog = <<>> /\ criticLog = <<>> /\ last_message = None

ChatParked ==
    /\ convSet = {} /\ callMenu = {} /\ reqCap = 0 /\ callCap = 0
    /\ cpc = [c \in Convs |-> "off"]
    /\ full_messages = [c \in Convs |-> <<>>]
    /\ current_tools = [c \in Convs |-> <<>>]
    /\ tool_calls = [c \in Convs |-> <<>>]
    /\ callIdx = [c \in Convs |-> 0]
    /\ mcp_lock = None
    /\ requests = [c \in Convs |-> 0]
    /\ final_text = [c \in Convs |-> None]
    /\ messages = [c \in Convs |-> <<>>]
    /\ tool_result = [c \in Convs |-> NoResult]
    /\ exception = [c \in Convs |-> None]
    /\ name_clash = FALSE
    /\ request_tools = [c \in Convs |-> <<>>]

\* the subsystem named by "on" starts as constructed, every other one is not running
ExtInit(on) ==
    /\ IF on = "convert"
         THEN /\ convPc = "ready"
              /\ \E n \in 0..MaxTools : mcp_tools \in [1..n -> Descriptors]
         ELSE convPc = "off" /\ mcp_tools = <<>>
    /\ openai_tools = <<>>
    /\ IF on = "tags"
         THEN /\ tagPc = "ready"
              /\ \E n \in 0..MaxTags : tag_request \in [1..n -> RawTags]
         ELSE tagPc = "off" /\ tag_request = <<>>
    /\ selection_result = ToolError(<<>>)
    /\ retryPc = "idle"
    /\ helper = None /\ attempt_number = 0 /\ outcomes = <<>> /\ waits = <<>>
    /\ fetched = <<>>
    /\ ConnectionManagerInit
    /\ ppc = [r \in Requests |-> "idle"]
    /\ chat_messages = <<>> /\ broadcasts = <<>>
    /\ user_msg = [r \in Requests |-> 0]
    /\ response = [r \in Requests |-> None]

InitPipeline == PipelineInit /\ LoopParked /\ ChatParked /\ ExtInit("none")
InitLoop == LoopInit /\ PipelineParked /\ ChatParked /\ ExtInit("none")
InitChat == ChatInit /\ PipelineParked /\ LoopParked /\ ExtInit("none")
InitSelect == SelectInit /\ PipelineParked /\ LoopParked /\ ExtInit("none")
InitFail == FailInit /\ PipelineParked /\ LoopParked /\ ExtInit("none")
InitConc == ConcInit /\ PipelineParked /\ LoopParked /\ ExtInit("none")
InitRoute == RouteInit /\ PipelineParked /\ LoopParked /\ ExtInit("none")
InitPayload == PayloadInit /\ PipelineParked /\ LoopParked /\ ExtInit("none")
\* a conversation whose model asks for a selection, accepted or not, together
\* with another tool call in the same response
InitTurn ==
    /\ ChatSetup({"c1"},
                 {[fn |-> Selection, arguments |-> <<"team">>],
                  [fn |-> Selection, arguments |-> <<"bogus">>],
                  [fn |-> "get_player_name_from_id", arguments |-> "valid"]},
                 MaxRequests, MaxCalls, FALSE)
    /\ PipelineParked /\ LoopParked /\ ExtInit("none")
InitConvert == ExtInit("convert") /\ PipelineParked /\ LoopParked /\ ChatParked
InitTags == ExtInit("tags") /\ PipelineParked /\ LoopParked /\ ChatParked
\* the server as started: no request made yet
InitServer == ExtInit("none") /\ PipelineParked /\ LoopParked /\ ChatParked

SpecPipeline == InitPipeline /\ [][NextPipeline]_vars
SpecLoop == InitLoop /\ [][NextLoop]_vars
SpecChat == InitChat /\ [][NextChat]_vars
SpecSelect == InitSelect /\ [][NextChat]_vars
SpecFail == InitFail /\ [][NextChat]_vars
SpecConc == InitConc /\ [][NextChat]_vars
SpecRoute == InitRoute /\ [][NextChat]_vars
SpecPayload == InitPayload /\ [][NextChat]_vars
SpecConvert == InitConvert /\ [][Convert]_vars
SpecTags == InitTags /\ [][CallSelectionTool]_vars
SpecRetry == InitServer /\ [][NextRetry]_vars
SpecTurn == InitTurn /\ [][NextChat]_vars
SpecConnections == InitServer /\ [][NextConnections]_vars
SpecPost == InitServer /\ [][NextPost]_vars

====
